---- MODULE Spec2Model ----
(***************************************************************************)
(* A model of NNSProposalBot (src/main.go): the shared State (watermark    *)
(* LastSeenProposal and registry ChatIds), the command loop of main, the   *)
(* feed poller fetchProposalsAndNotify, the periodic State.persist and     *)
(* State.restore at start-up, together with process stops and restarts.    *)
(***************************************************************************)
EXTENDS Integers, Sequences, FiniteSets, TLC

\* ------------------------------------------------------------------ bounds
\* Chat ids are 1..MaxChat, proposal ids 1..MaxId, and one fetch returns at
\* most MaxFetch records.
MaxChat == 2
MaxId == 2
MaxFetch == 2
\* setNewLastSeenId is called from MaxCallers tasks at once.
MaxCallers == 2

\* ------------------------------------------------------- program constants
MAX_TOPIC_LENGTH == 50
MAX_BLOCKED_TOPICS == 30
TOPIC_GOVERNANCE == "Governance"
ALL_EXCEPT_GOVERNANCE == "AllButGovernance"

Recipients == 1..MaxChat
ProposalIds == 1..MaxId
Callers == 1..MaxCallers

\* A label of 51 characters, one more than MAX_TOPIC_LENGTH.
LongLabel == "xxxxxxxxxxxxxxxxxxxxxxxxxxxxxxxxxxxxxxxxxxxxxxxxxxx"

\* The words a /block or /unblock command is given.
CmdTopics == {"X", "", TOPIC_GOVERNANCE, ALL_EXCEPT_GOVERNANCE, LongLabel}

\* The chat the commands come from where the snapshot file is followed.
DurableChats == {1}

\* Proposal.Topic of the record the feed serves under an id.
TopicOf(id) ==
  CASE id % 3 = 1 -> "X"
    [] id % 3 = 2 -> TOPIC_GOVERNANCE
    [] OTHER -> ""

\* The topics a proposal can carry.
Topics == {"X", TOPIC_GOVERNANCE, "", ALL_EXCEPT_GOVERNANCE}

VARIABLES
  status,            \* "running", or how the process stopped
  LastSeenProposal,  \* State.LastSeenProposal (while down: the value held at the stop)
  ChatIds,           \* State.ChatIds: chat id -> (topic -> bool)
  file,              \* the content of STATE_PATH
  pc,                \* where the feed poller is
  proposals,         \* the poller's sorted slice, the records still to visit
  cur,               \* the proposal being fanned out, 0 for none (while down: at the stop)
  ids,               \* the chat ids still to notify for cur
  sendErr,           \* what the last bot.Send returned
  ppc,               \* where the persistence task is
  data,              \* the bytes State.persist marshalled
  tmpOk,             \* os.WriteFile wrote the temporary file in full
  fetched,           \* history: the slice the current tick parsed, as fetched
  wm0,               \* history: the watermark when the current tick began
  pollDispatched,    \* history: the ids the current tick dispatched, in order
  dispatched,        \* history: the ids dispatched since the process started
  eligible,          \* history: what chatIdsForTopic returned for cur
  sent,              \* history: the chats bot.Send was called with for cur
  owed,              \* history: the chats eligible for cur that no Send was tried for
  lock,              \* State.lock: the caller holding it for writing (0: free)
  apc,               \* where each caller of setNewLastSeenId is
  aid,               \* the id each caller passed
  aseen,             \* history: LastSeenProposal as each caller's compare read it
  aupd,              \* the result `updated` of each caller
  maxPassed,         \* history: the largest id passed to setNewLastSeenId
  newIds,            \* history: the ids some call returned true for
  dupNew,            \* history: two calls returned true for one id
  wholder,           \* State.lock: the task holding it for writing ("none": free)
  rholders,          \* State.lock: the tasks holding it for reading
  lpc,               \* where each task is with respect to State.lock
  lpoll,             \* the poller's locals: proposal id, updated, ids left, chat to remove
  snap               \* what json.Marshal has read of the State so far

vars == <<status, LastSeenProposal, ChatIds, file, pc, proposals, cur, ids, sendErr,
          ppc, data, tmpOk, fetched, wm0, pollDispatched, dispatched, eligible,
          sent, owed, lock, apc, aid, aseen, aupd, maxPassed, newIds, dupNew,
          wholder, rholders, lpc, lpoll, snap>>

lockVars == <<wholder, rholders, lpc, lpoll, snap>>

admitVars == <<lock, apc, aid, aseen, aupd, maxPassed, newIds, dupNew>>

\* ------------------------------------------------------------ Go map reads
\* A Go map[string]bool read: the stored value, false for an absent key.
Lookup(blacklist, topic) ==
  IF topic \in DOMAIN blacklist THEN blacklist[topic] ELSE FALSE

\* map[string]bool{}
EmptyBlacklist == [t \in {} |-> TRUE]

\* map[int64]map[string]bool{}
EmptyChatIds == [id \in {} |-> EmptyBlacklist]

\* blacklist[topic] = true
Put(blacklist, topic) ==
  [t \in DOMAIN blacklist \cup {topic} |-> IF t = topic THEN TRUE ELSE blacklist[t]]

\* delete(blacklist, topic)
Delete(blacklist, topic) ==
  [t \in DOMAIN blacklist \ {topic} |-> blacklist[t]]

\* ---------------------------------------------------------- State methods
\* Updated with the compare off by one: an id equal to the watermark passes.
UpdatedOrEqual(last, id) == last <= id

\* The compare of setNewLastSeenId: the value it returns.
Updated(last, id) == last < id

\* setNewLastSeenId without its compare: the id is stored whatever it is.
StoreAlways(last, id) == id

\* The swap of setNewLastSeenId: State.LastSeenProposal after the call.
setNewLastSeenId(last, id) == IF Updated(last, id) THEN id ELSE last

\* State.ChatIds after removeChatId(id).
removeChatId(chats, id) == [c \in DOMAIN chats \ {id} |-> chats[c]]

\* addChatId that keeps the filter set of a chat already subscribed.
addChatIdKeeping(chats, id) ==
  [c \in DOMAIN chats \cup {id} |-> IF c \in DOMAIN chats THEN chats[c] ELSE EmptyBlacklist]

\* State.ChatIds after addChatId(id).
addChatId(chats, id) ==
  [c \in DOMAIN chats \cup {id} |-> IF c = id THEN EmptyBlacklist ELSE chats[c]]

\* blockTopic with the quota off by one: a full filter set takes one more.
blockTopicInclusive(chats, id, topic) ==
  IF Len(topic) > MAX_TOPIC_LENGTH
    THEN chats
    ELSE IF id \in DOMAIN chats /\ Cardinality(DOMAIN chats[id]) <= MAX_BLOCKED_TOPICS
           THEN [chats EXCEPT ![id] = Put(@, topic)]
           ELSE chats

\* State.ChatIds after blockTopic(id, topic).
blockTopic(chats, id, topic) ==
  IF Len(topic) > MAX_TOPIC_LENGTH
    THEN chats
    ELSE IF id \in DOMAIN chats /\ Cardinality(DOMAIN chats[id]) < MAX_BLOCKED_TOPICS
           THEN [chats EXCEPT ![id] = Put(@, topic)]
           ELSE chats

\* unblockTopic without its delete.
unblockTopicKept(chats, id, topic) == chats

\* State.ChatIds after unblockTopic(id, topic).
unblockTopic(chats, id, topic) ==
  IF id \in DOMAIN chats
    THEN [chats EXCEPT ![id] = Delete(@, topic)]
    ELSE chats

\* Skipped without the governance-only check.
SkippedIfBlocked(blacklist, topic) == Lookup(blacklist, topic)

\* The loop body of chatIdsForTopic: the chat is skipped.
Skipped(blacklist, topic) ==
  \/ Lookup(blacklist, topic)
  \/ Lookup(blacklist, ALL_EXCEPT_GOVERNANCE) /\ topic # TOPIC_GOVERNANCE

\* chatIdsForTopic taking a chat without an entry for one that blocks nothing.
chatIdsForTopicAnyChat(chats, topic) ==
  {id \in Recipients :
     ~Skipped(IF id \in DOMAIN chats THEN chats[id] ELSE EmptyBlacklist, topic)}

\* What chatIdsForTopic(topic) returns, as a set (the slice's order is that of
\* Go's map iteration, which the caller's loop takes in any order).
chatIdsForTopic(chats, topic) ==
  {id \in DOMAIN chats : ~Skipped(chats[id], topic)}

\* ------------------------------------------------------------ the feed
\* sort.Slice by Id: insertion of one id into an ascending slice.
RECURSIVE Insert(_, _)
Insert(s, x) ==
  IF s = <<>> THEN <<x>>
  ELSE IF x < Head(s) THEN <<x>> \o s
  ELSE <<Head(s)>> \o Insert(Tail(s), x)

\* The slice left as fetched.
Unsorted(s) == s

RECURSIVE SortById(_)
SortById(s) == IF s = <<>> THEN <<>> ELSE Insert(SortById(Tail(s)), Head(s))

\* The slices one fetch can parse into: any ids, in any order, repeats included.
Feeds == UNION {[1..n -> ProposalIds] : n \in 0..MaxFetch}

\* --------------------------------------------------------- the snapshot
\* json.Marshal(s): the object's members, each map as its set of key/value
\* members (the unexported lock is not encoded).
Marshal(last, chats) ==
  [kind |-> "full",
   last_seen_proposal |-> last,
   chat_ids |-> {<<id, {<<t, chats[id][t]>> : t \in DOMAIN chats[id]}>> : id \in DOMAIN chats}]

\* No file at STATE_PATH, and a file that is not one whole snapshot.
NoFile == [kind |-> "none", last_seen_proposal |-> 0, chat_ids |-> {}]
Torn == [kind |-> "torn", last_seen_proposal |-> 0, chat_ids |-> {}]

\* The maps json.Unmarshal builds from the members of "chat_ids".
DecodeBlacklist(members) ==
  [t \in {m[1] : m \in members} |-> (CHOOSE m \in members : m[1] = t)[2]]

DecodeNonEmptyChatIds(members) ==
  [id \in {m[1] : m \in {n \in members : n[2] # {}}} |->
     DecodeBlacklist((CHOOSE m \in members : m[1] = id)[2])]

DecodeChatIds(members) ==
  [id \in {m[1] : m \in members} |->
     DecodeBlacklist((CHOOSE m \in members : m[1] = id)[2])]

\* Valid JSON in which one member has the wrong type: a string where the
\* map "chat_ids" is expected, or a string where the number
\* "last_seen_proposal" is expected.
BadChatsFile(last) == [kind |-> "badchats", last_seen_proposal |-> last, chat_ids |-> {}]
BadLastFile(chats) ==
  [kind |-> "badlast", last_seen_proposal |-> 0, chat_ids |-> Marshal(0, chats).chat_ids]

\* State.restore on a zero State: os.ReadFile fails for a missing file and
\* json.Unmarshal fails for one that is not valid JSON; both leave the zero
\* State, whose nil ChatIds is then replaced by an empty map. For a wrongly
\* typed member json.Unmarshal reports the error, skips that member and
\* decodes the others.
RestoredLast(f) == IF f.kind \in {"full", "badchats"} THEN f.last_seen_proposal ELSE 0

RestoredChatIds(f) ==
  IF f.kind \in {"full", "badlast"} THEN DecodeChatIds(f.chat_ids) ELSE EmptyChatIds

\* ------------------------------------------------------------- start-up
\* The command loop of main, fetchProposalsAndNotify and persist.
Tasks == {"main", "poller", "persist"}

\* The poller between two proposals, and json.Marshal before its first read.
NoProposal == [id |-> 0, updated |-> FALSE, ids |-> {}, rm |-> 0]
NoSnap == [last |-> 0, chats |-> EmptyChatIds]

up == status = "running"

\* The first start: no file at STATE_PATH, restore leaves the zero State.
Init ==
  /\ status = "running"
  /\ LastSeenProposal = 0
  /\ ChatIds = EmptyChatIds
  /\ file = NoFile
  /\ pc = "idle"
  /\ proposals = <<>>
  /\ cur = 0
  /\ ids = <<>>
  /\ sendErr = "nil"
  /\ ppc = "idle"
  /\ data = NoFile
  /\ tmpOk = TRUE
  /\ fetched = <<>>
  /\ wm0 = 0
  /\ pollDispatched = <<>>
  /\ dispatched = <<>>
  /\ eligible = {}
  /\ sent = <<>>
  /\ owed = {}
  /\ lock = 0
  /\ apc = [c \in Callers |-> "idle"]
  /\ aid = [c \in Callers |-> 0]
  /\ aseen = [c \in Callers |-> 0]
  /\ aupd = [c \in Callers |-> FALSE]
  /\ maxPassed = 0
  /\ newIds = {}
  /\ dupNew = FALSE
  /\ wholder = "none"
  /\ rholders = {}
  /\ lpc = [t \in Tasks |-> "idle"]
  /\ lpoll = NoProposal
  /\ snap = NoSnap

pollerVars == <<pc, proposals, cur, ids, sendErr, fetched, wm0, pollDispatched,
                dispatched, eligible, sent, owed>>
persistVars == <<ppc, data, tmpOk>>

\* ------------------------------------------------- the command loop of main
\* "/start"
CmdStart(id) ==
  /\ up
  /\ ChatIds' = addChatId(ChatIds, id)
  /\ UNCHANGED <<lockVars, admitVars, status, LastSeenProposal, file, pollerVars, persistVars>>

\* "/stop"
CmdStop(id) ==
  /\ up
  /\ ChatIds' = removeChatId(ChatIds, id)
  /\ UNCHANGED <<lockVars, admitVars, status, LastSeenProposal, file, pollerVars, persistVars>>

\* "/block <topic>"
CmdBlock(id, topic) ==
  /\ up
  /\ ChatIds' = blockTopic(ChatIds, id, topic)
  /\ UNCHANGED <<lockVars, admitVars, status, LastSeenProposal, file, pollerVars, persistVars>>

\* "/unblock <topic>"
CmdUnblock(id, topic) ==
  /\ up
  /\ ChatIds' = unblockTopic(ChatIds, id, topic)
  /\ UNCHANGED <<lockVars, admitVars, status, LastSeenProposal, file, pollerVars, persistVars>>

\* "/governance_only"
CmdGovernanceOnly(id) ==
  /\ up
  /\ ChatIds' = blockTopic(ChatIds, id, ALL_EXCEPT_GOVERNANCE)
  /\ UNCHANGED <<lockVars, admitVars, status, LastSeenProposal, file, pollerVars, persistVars>>

\* ------------------------------------------------------ stops and restarts
\* The process ends: its memory and its tasks are gone, the file stays.
\* LastSeenProposal, cur and owed keep what they were at the stop.
Halt(how) ==
  /\ status' = how
  /\ ChatIds' = EmptyChatIds
  /\ pc' = "idle"
  /\ proposals' = <<>>
  /\ ids' = <<>>
  /\ sendErr' = "nil"
  /\ ppc' = "idle"
  /\ data' = NoFile
  /\ tmpOk' = TRUE
  /\ fetched' = <<>>
  /\ wm0' = 0
  /\ pollDispatched' = <<>>
  /\ dispatched' = <<>>
  /\ eligible' = {}
  /\ sent' = <<>>
  /\ UNCHANGED <<lockVars, admitVars, LastSeenProposal, cur, owed, file>>

\* The process is killed from outside.
Kill == up /\ Halt("killed")

\* main starts again: state.restore(), then the tasks.
Restart ==
  /\ ~up
  /\ status' = "running"
  /\ LastSeenProposal' = RestoredLast(file)
  /\ ChatIds' = RestoredChatIds(file)
  /\ cur' = 0
  /\ owed' = {}
  /\ UNCHANGED <<lockVars, admitVars, file, pc, proposals, ids, sendErr, fetched, wm0, pollDispatched,
                 dispatched, eligible, sent, persistVars>>

\* ------------------------------------------ fetchProposalsAndNotify
Range(s) == {s[i] : i \in DOMAIN s}

\* The orders in which a range loop can meet the chat ids of a set.
Orders(S) == {s \in [1..Cardinality(S) -> S] : Range(s) = S}

\* IsBlocked taking every error for a block.
IsAnyError(err) == err # "nil"

\* The error of bot.Send names a chat that blocked the bot.
IsBlocked(err) == err = "blocked"

\* Advance that stays on a chat whose Send failed for another reason.
AdvanceUnlessFailed(rest, err) == IF err = "other" THEN rest ELSE Tail(rest)

\* The slice left to the range loop over ids once a Send has returned err.
Advance(rest, err) == Tail(rest)

\* http.Get fails: resp is nil and resp.Body panics, which ends the process.
\* (The one error that comes with a response, a refused redirect, leaves a
\* closed body that does not parse: FetchUnparsable.)
FetchNetworkError ==
  /\ up
  /\ pc = "idle"
  /\ Halt("panic")

\* The body does not parse as a list of proposals: the tick is over.
FetchUnparsable ==
  /\ up
  /\ pc = "idle"
  /\ UNCHANGED vars

\* The body parses; the slice is sorted by Id.
FetchParsed(feed) ==
  /\ up
  /\ pc = "idle"
  /\ proposals' = SortById(feed)
  /\ fetched' = feed
  /\ wm0' = LastSeenProposal
  /\ pollDispatched' = <<>>
  /\ pc' = "loop"
  /\ UNCHANGED <<lockVars, admitVars, status, LastSeenProposal, ChatIds, file, cur, ids, sendErr,
                 dispatched, eligible, sent, owed, persistVars>>

\* One pass of the loop over proposals: setNewLastSeenId, then either
\* continue or go on to notify.
Visit ==
  /\ up
  /\ pc = "loop"
  /\ proposals # <<>>
  /\ LET id == Head(proposals) IN
       /\ LastSeenProposal' = setNewLastSeenId(LastSeenProposal, id)
       /\ proposals' = Tail(proposals)
       /\ IF Updated(LastSeenProposal, id)
            THEN /\ cur' = id
                 /\ pc' = "query"
                 /\ dispatched' = Append(dispatched, id)
                 /\ pollDispatched' = Append(pollDispatched, id)
                 /\ owed' = chatIdsForTopic(ChatIds, TopicOf(id))
            ELSE UNCHANGED <<lockVars, admitVars, cur, pc, dispatched, pollDispatched, owed>>
  /\ UNCHANGED <<lockVars, admitVars, status, ChatIds, file, ids, sendErr, fetched, wm0, eligible, sent,
                 persistVars>>

\* ids := state.chatIdsForTopic(proposal.Topic)
Query ==
  /\ up
  /\ pc = "query"
  /\ eligible' = chatIdsForTopic(ChatIds, TopicOf(cur))
  /\ ids' \in Orders(eligible')
  /\ owed' = eligible'
  /\ sent' = <<>>
  /\ pc' = "send"
  /\ UNCHANGED <<lockVars, admitVars, status, LastSeenProposal, ChatIds, file, proposals, cur, sendErr,
                 fetched, wm0, pollDispatched, dispatched, persistVars>>

\* bot.Send(msg) to the next chat id returns.
Send(err) ==
  /\ up
  /\ pc = "send"
  /\ ids # <<>>
  /\ sendErr' = err
  /\ sent' = Append(sent, Head(ids))
  /\ owed' = owed \ {Head(ids)}
  /\ pc' = "sent"
  /\ UNCHANGED <<lockVars, admitVars, status, LastSeenProposal, ChatIds, file, proposals, cur, ids,
                 fetched, wm0, pollDispatched, dispatched, eligible, persistVars>>

\* The error of Send is looked at, and the loop goes on to the next chat id.
AfterSend ==
  /\ up
  /\ pc = "sent"
  /\ ChatIds' = IF sendErr # "nil" /\ IsBlocked(sendErr)
                  THEN removeChatId(ChatIds, Head(ids))
                  ELSE ChatIds
  /\ ids' = Advance(ids, sendErr)
  /\ sendErr' = "nil"
  /\ pc' = "send"
  /\ UNCHANGED <<lockVars, admitVars, status, LastSeenProposal, file, proposals, cur, fetched, wm0,
                 pollDispatched, dispatched, eligible, sent, owed, persistVars>>

\* The loop over ids is over; on to the next proposal.
EndFanout ==
  /\ up
  /\ pc = "send"
  /\ ids = <<>>
  /\ cur' = 0
  /\ eligible' = {}
  /\ sent' = <<>>
  /\ owed' = {}
  /\ pc' = "loop"
  /\ UNCHANGED <<lockVars, admitVars, status, LastSeenProposal, ChatIds, file, proposals, ids, sendErr,
                 fetched, wm0, pollDispatched, dispatched, persistVars>>

\* The loop over proposals is over; the task waits for the next tick.
EndTick ==
  /\ up
  /\ pc = "loop"
  /\ proposals = <<>>
  /\ fetched' = <<>>
  /\ wm0' = 0
  /\ pollDispatched' = <<>>
  /\ pc' = "idle"
  /\ UNCHANGED <<lockVars, admitVars, status, LastSeenProposal, ChatIds, file, proposals, cur, ids,
                 sendErr, dispatched, eligible, sent, owed, persistVars>>

\* ---------------------------------------------------------- State.persist
\* json.Marshal(s) under the read lock.
PersistMarshal ==
  /\ up
  /\ ppc = "idle"
  /\ data' = Marshal(LastSeenProposal, ChatIds)
  /\ ppc' = "marshalled"
  /\ UNCHANGED <<lockVars, admitVars, status, LastSeenProposal, ChatIds, file, tmpOk, pollerVars>>

\* ioutil.TempFile fails: log.Fatal ends the process.
TempFileFails ==
  /\ up
  /\ ppc = "marshalled"
  /\ Halt("fatal")

\* ioutil.TempFile creates the temporary file.
TempFileCreated ==
  /\ up
  /\ ppc = "marshalled"
  /\ ppc' = "created"
  /\ UNCHANGED <<lockVars, admitVars, status, LastSeenProposal, ChatIds, file, data, tmpOk, pollerVars>>

\* os.WriteFile returns: the data is written in full, or it is not and the
\* error is logged.
WriteFile(ok) ==
  /\ up
  /\ ppc = "created"
  /\ tmpOk' = ok
  /\ ppc' = "written"
  /\ UNCHANGED <<lockVars, admitVars, status, LastSeenProposal, ChatIds, file, data, pollerVars>>

\* What os.Rename puts at STATE_PATH: the temporary file as it is.
Renamed(bytes, ok) == IF ok THEN bytes ELSE Torn

\* os.Rename(tmpFile.Name(), STATE_PATH)
Rename ==
  /\ up
  /\ ppc = "written"
  /\ file' = Renamed(data, tmpOk)
  /\ ppc' = "idle"
  /\ data' = NoFile
  /\ tmpOk' = TRUE
  /\ UNCHANGED <<lockVars, admitVars, status, LastSeenProposal, ChatIds, pollerVars>>

\* os.Rename fails; its error is dropped.
RenameFails ==
  /\ up
  /\ ppc = "written"
  /\ ppc' = "idle"
  /\ data' = NoFile
  /\ tmpOk' = TRUE
  /\ UNCHANGED <<lockVars, admitVars, status, LastSeenProposal, ChatIds, file, pollerVars>>

\* ------------------------------------- setNewLastSeenId, step by step
\* Lock that never waits.
NeverHeld(holder) == TRUE

\* s.lock.Lock() returns once no other caller holds the lock.
LockFree(holder) == holder = 0

\* A task calls setNewLastSeenId(id).
Call(c, id) ==
  /\ apc[c] = "idle"
  /\ apc' = [apc EXCEPT ![c] = "lock"]
  /\ aid' = [aid EXCEPT ![c] = id]
  /\ maxPassed' = IF id > maxPassed THEN id ELSE maxPassed
  /\ UNCHANGED <<lockVars, status, LastSeenProposal, ChatIds, file, pollerVars, persistVars,
                 lock, aseen, aupd, newIds, dupNew>>

\* s.lock.Lock()
Acquire(c) ==
  /\ apc[c] = "lock"
  /\ LockFree(lock)
  /\ lock' = c
  /\ apc' = [apc EXCEPT ![c] = "cmp"]
  /\ UNCHANGED <<lockVars, status, LastSeenProposal, ChatIds, file, pollerVars, persistVars,
                 aid, aseen, aupd, maxPassed, newIds, dupNew>>

\* if s.LastSeenProposal < id
Compare(c) ==
  /\ apc[c] = "cmp"
  /\ aseen' = [aseen EXCEPT ![c] = LastSeenProposal]
  /\ apc' = [apc EXCEPT ![c] = IF Updated(LastSeenProposal, aid[c]) THEN "set" ELSE "unlock"]
  /\ UNCHANGED <<lockVars, status, LastSeenProposal, ChatIds, file, pollerVars, persistVars,
                 lock, aid, aupd, maxPassed, newIds, dupNew>>

\* s.LastSeenProposal = id; updated = true
Set(c) ==
  /\ apc[c] = "set"
  /\ LastSeenProposal' = aid[c]
  /\ aupd' = [aupd EXCEPT ![c] = TRUE]
  /\ apc' = [apc EXCEPT ![c] = "unlock"]
  /\ UNCHANGED <<lockVars, status, ChatIds, file, pollerVars, persistVars,
                 lock, aid, aseen, maxPassed, newIds, dupNew>>

\* s.lock.Unlock()
Release(c) ==
  /\ apc[c] = "unlock"
  /\ lock' = 0
  /\ apc' = [apc EXCEPT ![c] = "ret"]
  /\ UNCHANGED <<lockVars, status, LastSeenProposal, ChatIds, file, pollerVars, persistVars,
                 aid, aseen, aupd, maxPassed, newIds, dupNew>>

\* return
Return(c) ==
  /\ apc[c] = "ret"
  /\ newIds' = IF aupd[c] THEN newIds \cup {aid[c]} ELSE newIds
  /\ dupNew' = (dupNew \/ (aupd[c] /\ aid[c] \in newIds))
  /\ apc' = [apc EXCEPT ![c] = "idle"]
  /\ aid' = [aid EXCEPT ![c] = 0]
  /\ aseen' = [aseen EXCEPT ![c] = 0]
  /\ aupd' = [aupd EXCEPT ![c] = FALSE]
  /\ UNCHANGED <<lockVars, status, LastSeenProposal, ChatIds, file, pollerVars, persistVars,
                 lock, maxPassed>>

\* ----------------------------------------------------- the specifications
\* The commands of every chat, with every word.
Command ==
  \E id \in Recipients :
    \/ CmdStart(id)
    \/ CmdStop(id)
    \/ CmdGovernanceOnly(id)
    \/ \E topic \in CmdTopics : CmdBlock(id, topic) \/ CmdUnblock(id, topic)

\* The commands that decide who is notified of which topic of TopicOf.
FanoutCommand ==
  \E id \in Recipients :
    \/ CmdStart(id)
    \/ CmdStop(id)
    \/ CmdGovernanceOnly(id)
    \/ CmdUnblock(id, ALL_EXCEPT_GOVERNANCE)

\* The commands of the chats of DurableChats that add and remove an entry.
DurableCommand ==
  \E id \in DurableChats : CmdStart(id) \/ CmdStop(id)

Poller ==
  \/ FetchNetworkError
  \/ FetchUnparsable
  \/ \E feed \in Feeds : FetchParsed(feed)
  \/ Visit
  \/ Query
  \/ \E err \in {"nil", "blocked", "other"} : Send(err)
  \/ AfterSend
  \/ EndFanout
  \/ EndTick

Persister ==
  \/ PersistMarshal
  \/ TempFileFails
  \/ TempFileCreated
  \/ \E ok \in BOOLEAN : WriteFile(ok)
  \/ Rename
  \/ RenameFails

\* The whole program: the command loop, the two tasks, stops and restarts.
\* Each specification below takes a part of Next, so its behaviours are
\* behaviours of Spec.
Next == Command \/ Poller \/ Persister \/ Kill \/ Restart

Spec == Init /\ [][Next]_vars

\* The registry alone, under every command.
RegistryNext == Command

RegistrySpec == Init /\ [][RegistryNext]_vars

\* The feed poller and the commands, with no snapshot taken.
FanoutNext == FanoutCommand \/ Poller \/ Kill \/ Restart

FanoutSpec == Init /\ [][FanoutNext]_vars

\* The feed poller and the persistence task, across stops and restarts.
DurableNext == DurableCommand \/ Poller \/ Persister \/ Kill \/ Restart

DurableSpec == Init /\ [][DurableNext]_vars

\* Concurrent callers of setNewLastSeenId.
AdmitNext ==
  \E c \in Callers :
    \/ \E id \in ProposalIds : Call(c, id)
    \/ Acquire(c)
    \/ Compare(c)
    \/ Set(c)
    \/ Release(c)
    \/ Return(c)

AdmitSpec == Init /\ [][AdmitNext]_vars

\* ------------------------------------------------------------ properties
Last(s) == s[Len(s)]

\* The ids of a set as an ascending slice.
RECURSIVE Ascending(_)
Ascending(S) ==
  IF S = {} THEN <<>>
  ELSE LET m == CHOOSE x \in S : \A y \in S : x <= y
       IN <<m>> \o Ascending(S \ {m})

\* s lists each element of S once and nothing else.
ListsOnce(s, S) == Range(s) = S /\ Len(s) = Cardinality(S)

\* C1: within one run of the process every dispatched id is above the
\* watermark as it stands when the id is visited, and above every id
\* dispatched before it: no id is dispatched twice and the dispatched ids
\* strictly increase.
C1_DispatchAboveWatermark ==
  [][(dispatched' # dispatched /\ dispatched' # <<>>) =>
       /\ Last(dispatched') > LastSeenProposal
       /\ \A i \in DOMAIN dispatched : dispatched[i] < Last(dispatched')]_vars

\* A fetch that held id 1 twice is over and dispatched it once.
C1_Witness ==
  /\ up
  /\ pc = "loop"
  /\ proposals = <<>>
  /\ fetched = <<1, 1>>
  /\ pollDispatched = <<1>>

\* C2: when the loop over the proposals of a parsed fetch is over, the ids
\* it dispatched are the distinct fetched ids above the watermark of the
\* tick's start, in ascending order, whatever order they were fetched in.
C2_AllNewAscending ==
  (up /\ pc = "loop" /\ proposals = <<>>) =>
    pollDispatched = Ascending({id \in Range(fetched) : id > wm0})

\* The feed <<2, 1>> with watermark 0 dispatched 1 and then 2.
C2_Witness ==
  /\ up
  /\ pc = "loop"
  /\ proposals = <<>>
  /\ fetched = <<2, 1>>
  /\ wm0 = 0
  /\ pollDispatched = <<1, 2>>

\* C3: a call of setNewLastSeenId that is about to unlock returns true
\* exactly when its id is above the watermark its compare read, has then set
\* the watermark to its id and has otherwise left it as read; with no call
\* in progress the watermark is the largest id ever passed; and no two
\* calls return true for the same id.
C3_AtomicCompareAndSwap ==
  /\ \A c \in Callers :
       apc[c] = "unlock" =>
         /\ aupd[c] <=> aseen[c] < aid[c]
         /\ LastSeenProposal = IF aupd[c] THEN aid[c] ELSE aseen[c]
  /\ (\A c \in Callers : apc[c] \in {"idle", "ret"}) => LastSeenProposal = maxPassed
  /\ ~dupNew

\* Two calls passed the same id at once: one returned true, one false.
C3_Witness ==
  /\ apc[1] = "ret" /\ apc[2] = "ret"
  /\ aid[1] = aid[2]
  /\ aupd[1] /\ ~aupd[2]
  /\ LastSeenProposal = aid[1]

\* C4: for every topic, chatIdsForTopic returns the chats that have an
\* entry, do not block the topic, and either do not hold the governance-only
\* label or are asked about the topic "Governance".
C4_EligibleRecipients ==
  \A t \in CmdTopics \cup {"Y"} :
    chatIdsForTopic(ChatIds, t) =
      {r \in DOMAIN ChatIds :
         /\ t \notin DOMAIN ChatIds[r]
         /\ (ALL_EXCEPT_GOVERNANCE \notin DOMAIN ChatIds[r] \/ t = TOPIC_GOVERNANCE)}

\* A chat holding only the governance-only label is returned for
\* "Governance" and not for the empty topic.
C4_Witness ==
  \E r \in DOMAIN ChatIds :
    /\ DOMAIN ChatIds[r] = {ALL_EXCEPT_GOVERNANCE}
    /\ r \in chatIdsForTopic(ChatIds, TOPIC_GOVERNANCE)
    /\ r \notin chatIdsForTopic(ChatIds, "")

\* C5: while a proposal is fanned out, the chats Send was called with
\* followed by the chats still to come list each chat chatIdsForTopic
\* returned for it once and no other; when the loop is over, Send was called
\* once for each of them, failed or not.
C5_SendOncePerEligible ==
  (up /\ pc \in {"send", "sent"}) =>
    ListsOnce(sent \o (IF pc = "sent" THEN Tail(ids) ELSE ids), eligible)

\* A fan-out to two chats is over, after two calls of Send.
C5_Witness ==
  /\ up
  /\ pc = "send"
  /\ ids = <<>>
  /\ Cardinality(eligible) = 2
  /\ Len(sent) = 2

\* C6: bot.Send itself changes neither registry nor watermark; the step
\* after it removes the chat's entry, so that no topic is eligible for it,
\* exactly when the error was "blocked", leaving the other entries and the
\* watermark as they were; and while the process runs an entry comes back
\* only by /start.
C6_RemovedIffBlocked ==
  [][/\ (up /\ pc = "send" /\ pc' = "sent") =>
          (ChatIds' = ChatIds /\ LastSeenProposal' = LastSeenProposal)
     /\ (up /\ pc = "sent" /\ pc' = "send") =>
          /\ LastSeenProposal' = LastSeenProposal
          /\ IF sendErr = "blocked"
               THEN /\ Head(ids) \notin DOMAIN ChatIds'
                    /\ \A t \in Topics : Head(ids) \notin chatIdsForTopic(ChatIds', t)
                    /\ \A c \in DOMAIN ChatIds \ {Head(ids)} :
                         c \in DOMAIN ChatIds' /\ ChatIds'[c] = ChatIds[c]
               ELSE ChatIds' = ChatIds
     /\ \A r \in Recipients :
          (up /\ up' /\ r \notin DOMAIN ChatIds /\ r \in DOMAIN ChatIds') => CmdStart(r)]_vars

\* Send to a subscribed chat has just failed with "blocked".
C6_Witness ==
  /\ up
  /\ pc = "sent"
  /\ sendErr = "blocked"
  /\ Head(ids) \in DOMAIN ChatIds
  /\ Cardinality(DOMAIN ChatIds) = 2

\* C7: the file at STATE_PATH is never anything but no file at all or one
\* whole snapshot.
C7_NeverTorn == file.kind \in {"none", "full"}

\* C8: a tick whose fetch fails on the network or parses to nothing leaves
\* the process running and the poller waiting for its next tick, with the
\* watermark, the registry and the dispatched ids as they were.
C8_FailedFetchSkipsTick ==
  [][(up /\ pc = "idle" /\ (FetchNetworkError \/ FetchUnparsable)) =>
       /\ up'
       /\ pc' = "idle"
       /\ LastSeenProposal' = LastSeenProposal
       /\ ChatIds' = ChatIds
       /\ dispatched' = dispatched]_vars

\* C9, as stated: the watermark never decreases, a stop and restart included
\* (while the process is down LastSeenProposal is the value it stopped with).
C9_NeverDecreases == [][LastSeenProposal' >= LastSeenProposal]_vars

\* C9, amended: the watermark never decreases while the process runs, and a
\* restart sets it to the watermark of the snapshot at STATE_PATH, 0 when
\* there is no whole snapshot there.
C9_MonotoneWhileRunning ==
  [][/\ (up /\ up') => LastSeenProposal' >= LastSeenProposal
     /\ (~up /\ up') =>
          LastSeenProposal' = IF file.kind = "full" THEN file.last_seen_proposal ELSE 0]_vars

\* The process runs again on a restored watermark above 0, having
\* dispatched nothing yet.
C9_Witness ==
  /\ up
  /\ dispatched = <<>>
  /\ LastSeenProposal > 0
  /\ file.kind = "full"
  /\ file.last_seen_proposal = LastSeenProposal

\* C10: an id at or below the watermark is never dispatched, so a proposal
\* admitted before a stop, with a chat eligible for it that Send was never
\* called for, can reach that chat after the restart only if the restored
\* watermark is below its id.
C10_OwedStaysAboveWatermark ==
  [][(~up /\ up' /\ owed # {}) => LastSeenProposal' < cur]_vars
\* C11, as stated: bot.Send is never called for a chat that has no entry,
\* which is what a chat is from the return of removeChatId to its next /start.
C11_NoSendAfterStop ==
  [][(up /\ pc = "send" /\ pc' = "sent") => Head(ids) \in DOMAIN ChatIds]_vars

\* C11, amended: /stop leaves the chat without an entry; the chats
\* chatIdsForTopic returns all have an entry at that moment; and bot.Send is
\* called only for a chat it returned for the proposal being fanned out.
C11_NoFanoutAfterStop ==
  [][/\ \A r \in Recipients : CmdStop(r) => r \notin DOMAIN ChatIds'
     /\ (up /\ pc = "query" /\ pc' = "send") =>
          (Range(ids') \subseteq DOMAIN ChatIds /\ Range(ids') = eligible')
     /\ (up /\ pc = "send" /\ pc' = "sent") => Head(ids) \in eligible]_vars

\* Send is about to be called for a chat that was stopped after
\* chatIdsForTopic had returned it.
C11_Witness ==
  /\ up
  /\ pc = "send"
  /\ ids # <<>>
  /\ Head(ids) \in eligible
  /\ Head(ids) \notin DOMAIN ChatIds
\* ------------------------------------------------------ the state lock
\* State.lock is a sync.RWMutex: Lock waits until nobody holds the lock,
\* RLock waits until nobody holds it for writing.
NoWaitRLock(w) == TRUE

CanRLock(w) == w = "none"

CanLock(w, rs) == w = "none" /\ rs = {}

KeepRead(rs, t) == rs

ReleaseRead(rs, t) == rs \ {t}

engineVars == <<status, file, pollerVars, persistVars, admitVars>>

Goto(t, where) == lpc' = [lpc EXCEPT ![t] = where]

\* The command loop: a mutator of the registry takes the lock for writing,
\* changes the registry and releases the lock; the reply is sent afterwards.
MainLock ==
  /\ up /\ lpc["main"] = "idle"
  /\ CanLock(wholder, rholders)
  /\ wholder' = "main"
  /\ Goto("main", "locked")
  /\ UNCHANGED <<engineVars, LastSeenProposal, ChatIds, rholders, lpoll, snap>>

MainApply(id, op) ==
  /\ up /\ lpc["main"] = "locked"
  /\ ChatIds' = CASE op = "start" -> addChatId(ChatIds, id)
                  [] op = "stop" -> removeChatId(ChatIds, id)
                  [] op = "block" -> blockTopic(ChatIds, id, ALL_EXCEPT_GOVERNANCE)
                  [] op = "unblock" -> unblockTopic(ChatIds, id, ALL_EXCEPT_GOVERNANCE)
  /\ Goto("main", "applied")
  /\ UNCHANGED <<engineVars, LastSeenProposal, wholder, rholders, lpoll, snap>>

MainUnlock ==
  /\ up /\ lpc["main"] = "applied"
  /\ wholder' = "none"
  /\ Goto("main", "replying")
  /\ UNCHANGED <<engineVars, LastSeenProposal, ChatIds, rholders, lpoll, snap>>

\* /blacklist reads the registry under the read lock.
MainRLock ==
  /\ up /\ lpc["main"] = "idle"
  /\ CanRLock(wholder)
  /\ rholders' = rholders \cup {"main"}
  /\ Goto("main", "reading")
  /\ UNCHANGED <<engineVars, LastSeenProposal, ChatIds, wholder, lpoll, snap>>

MainRUnlock ==
  /\ up /\ lpc["main"] = "reading"
  /\ rholders' = ReleaseRead(rholders, "main")
  /\ Goto("main", "replying")
  /\ UNCHANGED <<engineVars, LastSeenProposal, ChatIds, wholder, lpoll, snap>>

MainReplied ==
  /\ up /\ lpc["main"] = "replying"
  /\ Goto("main", "idle")
  /\ UNCHANGED <<engineVars, LastSeenProposal, ChatIds, wholder, rholders, lpoll, snap>>

MainStep ==
  \/ MainLock
  \/ \E id \in Recipients, op \in {"start", "stop", "block", "unblock"} : MainApply(id, op)
  \/ MainUnlock
  \/ MainRLock
  \/ MainRUnlock
  \/ MainReplied

\* The poller: the fetch and every Send happen with no lock held; the
\* admission of a proposal and the removal of a chat take the lock for
\* writing, the recipient query takes it for reading.
PFetch ==
  /\ up /\ lpc["poller"] = "idle"
  /\ Goto("poller", "fetching")
  /\ UNCHANGED <<engineVars, LastSeenProposal, ChatIds, wholder, rholders, lpoll, snap>>

PNothing ==
  /\ up /\ lpc["poller"] = "fetching"
  /\ Goto("poller", "idle")
  /\ UNCHANGED <<engineVars, LastSeenProposal, ChatIds, wholder, rholders, lpoll, snap>>

PProposal(id) ==
  /\ up /\ lpc["poller"] \in {"fetching", "next"}
  /\ lpoll' = [NoProposal EXCEPT !.id = id]
  /\ Goto("poller", "admit")
  /\ UNCHANGED <<engineVars, LastSeenProposal, ChatIds, wholder, rholders, snap>>

PEndTick ==
  /\ up /\ lpc["poller"] = "next"
  /\ lpoll' = NoProposal
  /\ Goto("poller", "idle")
  /\ UNCHANGED <<engineVars, LastSeenProposal, ChatIds, wholder, rholders, snap>>

PAdmitLock ==
  /\ up /\ lpc["poller"] = "admit"
  /\ CanLock(wholder, rholders)
  /\ wholder' = "poller"
  /\ Goto("poller", "admitting")
  /\ UNCHANGED <<engineVars, LastSeenProposal, ChatIds, rholders, lpoll, snap>>

PAdmit ==
  /\ up /\ lpc["poller"] = "admitting"
  /\ LastSeenProposal' = setNewLastSeenId(LastSeenProposal, lpoll.id)
  /\ lpoll' = [lpoll EXCEPT !.updated = Updated(LastSeenProposal, lpoll.id)]
  /\ Goto("poller", "admitted")
  /\ UNCHANGED <<engineVars, ChatIds, wholder, rholders, snap>>

PAdmitUnlock ==
  /\ up /\ lpc["poller"] = "admitted"
  /\ wholder' = "none"
  /\ Goto("poller", IF lpoll.updated THEN "query" ELSE "next")
  /\ UNCHANGED <<engineVars, LastSeenProposal, ChatIds, rholders, lpoll, snap>>

PQueryRLock ==
  /\ up /\ lpc["poller"] = "query"
  /\ CanRLock(wholder)
  /\ rholders' = rholders \cup {"poller"}
  /\ Goto("poller", "querying")
  /\ UNCHANGED <<engineVars, LastSeenProposal, ChatIds, wholder, lpoll, snap>>

PQuery ==
  /\ up /\ lpc["poller"] = "querying"
  /\ lpoll' = [lpoll EXCEPT !.ids = chatIdsForTopic(ChatIds, TopicOf(lpoll.id))]
  /\ Goto("poller", "queried")
  /\ UNCHANGED <<engineVars, LastSeenProposal, ChatIds, wholder, rholders, snap>>

PQueryRUnlock ==
  /\ up /\ lpc["poller"] = "queried"
  /\ rholders' = ReleaseRead(rholders, "poller")
  /\ Goto("poller", IF lpoll.ids = {} THEN "next" ELSE "sending")
  /\ UNCHANGED <<engineVars, LastSeenProposal, ChatIds, wholder, lpoll, snap>>

PSend(r, err) ==
  /\ up /\ lpc["poller"] = "sending"
  /\ r \in lpoll.ids
  /\ IF IsBlocked(err)
       THEN /\ lpoll' = [lpoll EXCEPT !.rm = r]
            /\ Goto("poller", "remove")
       ELSE /\ lpoll' = [lpoll EXCEPT !.ids = @ \ {r}]
            /\ Goto("poller", IF lpoll.ids = {r} THEN "next" ELSE "sending")
  /\ UNCHANGED <<engineVars, LastSeenProposal, ChatIds, wholder, rholders, snap>>

PRemoveLock ==
  /\ up /\ lpc["poller"] = "remove"
  /\ CanLock(wholder, rholders)
  /\ wholder' = "poller"
  /\ Goto("poller", "removing")
  /\ UNCHANGED <<engineVars, LastSeenProposal, ChatIds, rholders, lpoll, snap>>

PRemove ==
  /\ up /\ lpc["poller"] = "removing"
  /\ ChatIds' = removeChatId(ChatIds, lpoll.rm)
  /\ Goto("poller", "removed")
  /\ UNCHANGED <<engineVars, LastSeenProposal, wholder, rholders, lpoll, snap>>

PRemoveUnlock ==
  /\ up /\ lpc["poller"] = "removed"
  /\ wholder' = "none"
  /\ lpoll' = [lpoll EXCEPT !.ids = @ \ {lpoll.rm}, !.rm = 0]
  /\ Goto("poller", IF lpoll.ids = {lpoll.rm} THEN "next" ELSE "sending")
  /\ UNCHANGED <<engineVars, LastSeenProposal, ChatIds, rholders, snap>>

PollerStep ==
  \/ PFetch
  \/ PNothing
  \/ \E id \in ProposalIds : PProposal(id)
  \/ PEndTick
  \/ PAdmitLock
  \/ PAdmit
  \/ PAdmitUnlock
  \/ PQueryRLock
  \/ PQuery
  \/ PQueryRUnlock
  \/ \E r \in Recipients, err \in {"none", "blocked", "other"} : PSend(r, err)
  \/ PRemoveLock
  \/ PRemove
  \/ PRemoveUnlock

\* persist: json.Marshal reads the two fields under the read lock, the
\* lock is released, and the file is written and renamed afterwards.
SRLock ==
  /\ up /\ lpc["persist"] = "idle"
  /\ CanRLock(wholder)
  /\ rholders' = rholders \cup {"persist"}
  /\ Goto("persist", "rlocked")
  /\ UNCHANGED <<engineVars, LastSeenProposal, ChatIds, wholder, lpoll, snap>>

SReadLast ==
  /\ up /\ lpc["persist"] = "rlocked"
  /\ snap' = [snap EXCEPT !.last = LastSeenProposal]
  /\ Goto("persist", "last")
  /\ UNCHANGED <<engineVars, LastSeenProposal, ChatIds, wholder, rholders, lpoll>>

SReadChats ==
  /\ up /\ lpc["persist"] = "last"
  /\ snap' = [snap EXCEPT !.chats = ChatIds]
  /\ Goto("persist", "both")
  /\ UNCHANGED <<engineVars, LastSeenProposal, ChatIds, wholder, rholders, lpoll>>

SRUnlock ==
  /\ up /\ lpc["persist"] = "both"
  /\ rholders' = ReleaseRead(rholders, "persist")
  /\ snap' = NoSnap
  /\ Goto("persist", "writing")
  /\ UNCHANGED <<engineVars, LastSeenProposal, ChatIds, wholder, lpoll>>

SWritten ==
  /\ up /\ lpc["persist"] = "writing"
  /\ Goto("persist", "idle")
  /\ UNCHANGED <<engineVars, LastSeenProposal, ChatIds, wholder, rholders, lpoll, snap>>

PersistStep ==
  \/ SRLock
  \/ SReadLast
  \/ SReadChats
  \/ SRUnlock
  \/ SWritten

LockNext == MainStep \/ PollerStep \/ PersistStep

LockSpec == Init /\ [][LockNext]_vars

\* C12: whenever json.Marshal has read both fields, the pair it read is
\* the pair the State holds at that instant: no mutator ran between the two
\* reads, and none is in the middle of a change.
C12_SnapshotConsistent ==
  lpc["persist"] = "both" =>
    /\ snap = [last |-> LastSeenProposal, chats |-> ChatIds]
    /\ wholder = "none"

C12_Witness ==
  /\ lpc["persist"] = "both"
  /\ snap.last > 0
  /\ snap.chats # EmptyChatIds
  /\ lpc["poller"] \in {"admit", "remove"}
  /\ lpc["main"] = "replying"

\* The steps a task takes inside a network call or a file operation.
InIO(t) ==
  \/ t = "main" /\ lpc[t] = "replying"
  \/ t = "poller" /\ lpc[t] \in {"fetching", "sending"}
  \/ t = "persist" /\ lpc[t] = "writing"

\* C19: a task inside a network call or a file operation holds the state
\* lock neither for reading nor for writing, and while the poller is inside
\* a fetch or a Send the command loop or the persister can always take a
\* step: neither of them waits for the poller.
C19_NoLockDuringIO ==
  /\ \A t \in Tasks : InIO(t) => (wholder # t /\ t \notin rholders)
  /\ InIO("poller") => ENABLED (MainStep \/ PersistStep)
  /\ (InIO("poller") /\ lpc["main"] = "idle" /\ lpc["persist"] \in {"idle", "writing"})
       => ENABLED MainLock
  /\ (InIO("poller") /\ lpc["persist"] = "idle" /\ lpc["main"] \in {"idle", "replying"})
       => ENABLED SRLock

C19_Witness ==
  /\ lpc["poller"] = "sending"
  /\ wholder = "main"
  /\ lpc["persist"] = "writing"
\* ------------------------------------------------- snapshot and restore
\* setNewLastSeenId as one step (the lock makes it one).
Admit(id) ==
  /\ up
  /\ LastSeenProposal' = setNewLastSeenId(LastSeenProposal, id)
  /\ UNCHANGED <<lockVars, admitVars, status, ChatIds, file, pollerVars, persistVars>>

RoundTripNext == Command \/ \E id \in ProposalIds : Admit(id)

RoundTripSpec == Init /\ [][RoundTripNext]_vars

\* The file a successful persist leaves for the current State.
Snapshot == Renamed(Marshal(LastSeenProposal, ChatIds), TRUE)

\* C13: restoring the file that a successful snapshot of the current state
\* leaves gives the same watermark, the same chat ids and for every chat
\* the same filter set.
C13_RoundTrip ==
  /\ RestoredLast(Snapshot) = LastSeenProposal
  /\ RestoredChatIds(Snapshot) = ChatIds
  /\ DOMAIN RestoredChatIds(Snapshot) = DOMAIN ChatIds
  /\ \A id \in DOMAIN ChatIds :
       DOMAIN RestoredChatIds(Snapshot)[id] = DOMAIN ChatIds[id]

C13_Witness ==
  /\ LastSeenProposal = MaxId
  /\ \E a, b \in DOMAIN ChatIds :
       /\ DOMAIN ChatIds[a] = {}
       /\ ALL_EXCEPT_GOVERNANCE \in DOMAIN ChatIds[b]
       /\ "X" \in DOMAIN ChatIds[b]
  /\ RestoredChatIds(Snapshot) = ChatIds

\* The files main may find at STATE_PATH when it starts.
SomeChatIds ==
  {EmptyChatIds,
   addChatId(EmptyChatIds, 1),
   blockTopic(addChatId(EmptyChatIds, 1), 1, "X"),
   blockTopic(addChatId(EmptyChatIds, 1), 1, ALL_EXCEPT_GOVERNANCE),
   addChatId(blockTopic(addChatId(EmptyChatIds, 1), 1, TOPIC_GOVERNANCE), 2)}

StateFiles ==
  {NoFile, Torn}
    \cup {Marshal(n, c) : n \in 0..MaxId, c \in SomeChatIds}
    \cup {BadChatsFile(n) : n \in 0..MaxId}
    \cup {BadLastFile(c) : c \in SomeChatIds}

\* While the process is down the file at STATE_PATH is replaced.
ReplaceFile(f) ==
  /\ ~up
  /\ file' = f
  /\ UNCHANGED <<lockVars, admitVars, status, LastSeenProposal, ChatIds, pollerVars, persistVars>>

RestoreNext == DurableCommand \/ Kill \/ Restart \/ \E f \in StateFiles : ReplaceFile(f)

RestoreSpec == Init /\ [][RestoreNext]_vars

\* C14: when main starts on a file that is missing or does not
\* deserialize without error, restore leaves watermark 0 and an empty
\* registry.
C14_FailedRestoreLeavesEmpty ==
  [][(~up /\ up' /\ file.kind # "full") =>
       (LastSeenProposal' = 0 /\ ChatIds' = EmptyChatIds)]_vars
\* C15: no failure of a step of persist ends the process: the process is
\* never in the state log.Fatal leaves it in.
C15_SnapshotFailureNotFatal == status # "fatal"
\* ------------------------------------------------------------ the quota
\* One label more than a filter set can hold, and the chats that fill
\* their sets.
LabelNames ==
  <<"t01", "t02", "t03", "t04", "t05", "t06", "t07", "t08", "t09", "t10",
     "t11", "t12", "t13", "t14", "t15", "t16", "t17", "t18", "t19", "t20",
     "t21", "t22", "t23", "t24", "t25", "t26", "t27", "t28", "t29", "t30",
     "t31">>

QuotaChats == {1, 2}

\* How many of LabelNames chat id has blocked; the next one it has not
\* blocked yet and the last one it has.
Blocked(id) ==
  IF id \in DOMAIN ChatIds
    THEN Cardinality(DOMAIN ChatIds[id] \cap Range(LabelNames))
    ELSE 0

NextLabel(id) == LabelNames[Blocked(id) + 1]

LastLabel(id) == LabelNames[IF Blocked(id) = 0 THEN 1 ELSE Blocked(id)]

QuotaCommand ==
  \E id \in QuotaChats :
    \/ CmdStart(id)
    \/ CmdStop(id)
    \/ CmdGovernanceOnly(id)
    \/ CmdBlock(id, NextLabel(id))
    \/ CmdBlock(id, LabelNames[1])
    \/ CmdBlock(id, LongLabel)
    \/ CmdUnblock(id, LastLabel(id))
    \/ CmdUnblock(id, ALL_EXCEPT_GOVERNANCE)

QuotaNext == QuotaCommand

QuotaSpec == Init /\ [][QuotaNext]_vars

\* C16: every filter set holds at most MAX_BLOCKED_TOPICS labels of at
\* most MAX_TOPIC_LENGTH characters each; blockTopic changes nothing on a
\* full filter set, and nothing for a label longer than MAX_TOPIC_LENGTH
\* whatever the filter set holds.
C16_QuotaAndLength ==
  /\ \A id \in DOMAIN ChatIds :
       /\ Cardinality(DOMAIN ChatIds[id]) <= MAX_BLOCKED_TOPICS
       /\ \A t \in DOMAIN ChatIds[id] : Len(t) <= MAX_TOPIC_LENGTH
       /\ Cardinality(DOMAIN ChatIds[id]) = MAX_BLOCKED_TOPICS =>
            \A t \in Range(LabelNames) \cup Topics : blockTopic(ChatIds, id, t) = ChatIds
  /\ \A id \in QuotaChats : blockTopic(ChatIds, id, LongLabel) = ChatIds

C16_Witness ==
  \E id \in DOMAIN ChatIds :
    /\ Cardinality(DOMAIN ChatIds[id]) = MAX_BLOCKED_TOPICS
    /\ NextLabel(id) \notin DOMAIN ChatIds[id]
    /\ Len(LongLabel) = MAX_TOPIC_LENGTH + 1

\* C20: whatever filter set a subscribed chat has, handling
\* /governance_only leaves the sentinel in it, and the chat is then a
\* recipient of no topic other than TOPIC_GOVERNANCE.
C20_GovernanceOnlyTakesEffect ==
  \A id \in DOMAIN ChatIds :
    LET after == blockTopic(ChatIds, id, ALL_EXCEPT_GOVERNANCE)
    IN  /\ ALL_EXCEPT_GOVERNANCE \in DOMAIN after[id]
        /\ \A t \in (Topics \cup Range(LabelNames)) \ {TOPIC_GOVERNANCE} :
             id \notin chatIdsForTopic(after, t)
\* ----------------------------------------------- laws of the registry
\* State.ChatIds after blockTopic(id, topic) followed by unblockTopic(id, topic).
BlockThenUnblock(id, topic) == unblockTopic(blockTopic(ChatIds, id, topic), id, topic)

\* C17, as stated: after blockTopic(r, l) and unblockTopic(r, l) chat r is
\* a recipient of topic l exactly when it was one before, whatever the
\* filter set of r held.
C17_BlockUnblockRestores ==
  \A r \in Recipients, l \in CmdTopics :
    (r \in chatIdsForTopic(BlockThenUnblock(r, l), l)) <=> (r \in chatIdsForTopic(ChatIds, l))

\* C17, amended: the pair leaves the registry as unblockTopic(r, l) alone
\* does. When l was not in the filter set of r, or r has no entry, the
\* registry is the one before the pair, so r is a recipient of every topic
\* exactly when it was before; when l was in the filter set it is removed.
C17_BlockUnblockIsUnblock ==
  \A r \in Recipients, l \in CmdTopics :
    /\ BlockThenUnblock(r, l) = unblockTopic(ChatIds, r, l)
    /\ (r \notin DOMAIN ChatIds \/ l \notin DOMAIN ChatIds[r]) =>
         /\ BlockThenUnblock(r, l) = ChatIds
         /\ \A t \in Topics :
              (r \in chatIdsForTopic(BlockThenUnblock(r, l), t)) <=> (r \in chatIdsForTopic(ChatIds, t))
    /\ (r \in DOMAIN ChatIds /\ l \in DOMAIN ChatIds[r]) =>
         l \notin DOMAIN BlockThenUnblock(r, l)[r]

C17_Witness ==
  \E r \in DOMAIN ChatIds :
    /\ "X" \in DOMAIN ChatIds[r]
    /\ ALL_EXCEPT_GOVERNANCE \notin DOMAIN ChatIds[r]
    /\ blockTopic(ChatIds, r, ALL_EXCEPT_GOVERNANCE) # ChatIds
    /\ BlockThenUnblock(r, ALL_EXCEPT_GOVERNANCE) = ChatIds
    /\ BlockThenUnblock(r, "X") # ChatIds

\* The entries of the chats other than id are the same in both registries.
SameOthers(a, b, id) ==
  /\ DOMAIN a \ {id} = DOMAIN b \ {id}
  /\ \A o \in DOMAIN a \ {id} : a[o] = b[o]

Subscribed(id) == addChatId(ChatIds, id)

Unsubscribed(id) == removeChatId(ChatIds, id)

\* C18: addChatId(r) leaves r with an empty filter set whatever it held,
\* and a second call changes nothing; removeChatId(r) leaves r with no
\* entry, changes nothing when r has none, and a second call changes
\* nothing; neither touches the entry of another chat, and the /start and
\* /stop commands leave the watermark alone.
C18_Laws ==
  \A r \in Recipients :
    /\ r \in DOMAIN Subscribed(r)
    /\ Subscribed(r)[r] = EmptyBlacklist
    /\ addChatId(Subscribed(r), r) = Subscribed(r)
    /\ SameOthers(Subscribed(r), ChatIds, r)
    /\ r \notin DOMAIN Unsubscribed(r)
    /\ removeChatId(Unsubscribed(r), r) = Unsubscribed(r)
    /\ r \notin DOMAIN ChatIds => Unsubscribed(r) = ChatIds
    /\ SameOthers(Unsubscribed(r), ChatIds, r)

C18_SubscribeUnsubscribeIdempotent ==
  /\ []C18_Laws
  /\ [][\A r \in Recipients :
          (CmdStart(r) \/ CmdStop(r)) => LastSeenProposal' = LastSeenProposal]_vars

C18_Witness ==
  /\ LastSeenProposal > 0
  /\ \E r, o \in DOMAIN ChatIds :
       /\ r # o
       /\ {"X", ALL_EXCEPT_GOVERNANCE} \subseteq DOMAIN ChatIds[r]
       /\ DOMAIN ChatIds[o] # {}
       /\ Subscribed(r) # ChatIds
       /\ Unsubscribed(r) # ChatIds
====
